---- MODULE Spec2Model ----
(***************************************************************************)
(* Model of the day-view layout pipeline of src/components/DayView.tsx:    *)
(* split-and-normalize, sort, continuation grouping and merge, overlap     *)
(* annotation, and the hand-over of the merged list to the renderer.       *)
(*                                                                         *)
(* JavaScript numbers are IEEE-754 binary64.  They are modelled exactly:   *)
(* a number is a sign, a 53-bit mantissa (a sequence of 15-bit limbs, most  *)
(* significant first) and the power of two of its last bit, and every      *)
(* arithmetic operation rounds to 53 significant bits, ties to even.       *)
(* Strings are sequences of one-character strings.                         *)
(***************************************************************************)
EXTENDS Integers, Sequences, FiniteSets, TLC

(***************************************************************************)
(* Natural numbers of any size: sequences of limbs in base 2^15, most      *)
(* significant limb first, no leading zero limb; <<>> is zero.             *)
(***************************************************************************)
\* one limb holds 15 bits
Base == 2 ^ 15

MantissaBits == 53

ZeroLimbs(n) == [i \in 1..n |-> 0]

RECURSIVE StripLeading(_)
StripLeading(a) ==
    IF a = <<>> THEN <<>>
    ELSE IF Head(a) # 0 THEN a ELSE StripLeading(Tail(a))

PadLeft(a, n) == ZeroLimbs(n - Len(a)) \o a

MaxOf(i, j) == IF i > j THEN i ELSE j

\* a + b + carry on equal-length limb strings; the result has one more limb
RECURSIVE BAddC(_, _, _)
BAddC(a, b, carry) ==
    IF a = <<>> THEN <<carry>>
    ELSE LET n   == Len(a)
             sum == a[n] + b[n] + carry
         IN  BAddC(SubSeq(a, 1, n - 1), SubSeq(b, 1, n - 1), sum \div Base)
                 \o <<sum % Base>>

BAdd(a, b) ==
    LET n == MaxOf(Len(a), Len(b))
    IN  StripLeading(BAddC(PadLeft(a, n), PadLeft(b, n), 0))

\* a - b - borrow on equal-length limb strings, for a >= b
RECURSIVE BSubC(_, _, _)
BSubC(a, b, borrow) ==
    IF a = <<>> THEN <<>>
    ELSE LET n    == Len(a)
             diff == a[n] - b[n] - borrow
         IN  BSubC(SubSeq(a, 1, n - 1), SubSeq(b, 1, n - 1),
                   IF diff < 0 THEN 1 ELSE 0)
                 \o <<IF diff < 0 THEN diff + Base ELSE diff>>

BSub(a, b) ==
    LET n == MaxOf(Len(a), Len(b))
    IN  StripLeading(BSubC(PadLeft(a, n), PadLeft(b, n), 0))

\* -1, 0, 1 as a < b, a = b, a > b
RECURSIVE BCmpSameLen(_, _)
BCmpSameLen(a, b) ==
    IF a = <<>> THEN 0
    ELSE IF Head(a) # Head(b) THEN (IF Head(a) < Head(b) THEN -1 ELSE 1)
    ELSE BCmpSameLen(Tail(a), Tail(b))

BCmp(a, b) ==
    IF Len(a) # Len(b) THEN (IF Len(a) < Len(b) THEN -1 ELSE 1)
    ELSE BCmpSameLen(a, b)

RECURSIVE BFromNat(_)
BFromNat(n) == IF n = 0 THEN <<>> ELSE BFromNat(n \div Base) \o <<n % Base>>

\* a * k + carry, for 0 <= k <= Base
RECURSIVE BMulC(_, _, _)
BMulC(a, k, carry) ==
    IF a = <<>> THEN BFromNat(carry)
    ELSE LET n    == Len(a)
             prod == a[n] * k + carry
         IN  BMulC(SubSeq(a, 1, n - 1), k, prod \div Base) \o <<prod % Base>>

BMulSmall(a, k) == StripLeading(BMulC(a, k, 0))

\* <<quotient, remainder>> of a by k, for 0 < k <= Base
RECURSIVE BDivR(_, _, _, _)
BDivR(a, k, rem, quot) ==
    IF a = <<>> THEN <<StripLeading(quot), rem>>
    ELSE LET cur == rem * Base + Head(a)
         IN  BDivR(Tail(a), k, cur % k, quot \o <<cur \div k>>)

BDivSmall(a, k) == BDivR(a, k, 0, <<>>)

RECURSIVE NatBitLen(_)
NatBitLen(n) == IF n = 0 THEN 0 ELSE 1 + NatBitLen(n \div 2)

BitLen(a) ==
    IF a = <<>> THEN 0 ELSE 15 * (Len(a) - 1) + NatBitLen(Head(a))

IsOdd(a) == a # <<>> /\ a[Len(a)] % 2 = 1

\* a * 2^s
ShiftLeft(a, s) ==
    IF a = <<>> THEN <<>>
    ELSE BMulSmall(a, 2 ^ (s % 15)) \o ZeroLimbs(s \div 15)

\* <<a \div 2^s, whether a bit that was shifted out is set>>
ShiftRight(a, s) ==
    LET drop == s \div 15
        keep == IF Len(a) > drop THEN Len(a) - drop ELSE 0
        lost == \E i \in (keep + 1)..Len(a) : a[i] # 0
        qr   == BDivSmall(SubSeq(a, 1, keep), 2 ^ (s % 15))
    IN  <<qr[1], lost \/ qr[2] # 0>>

(***************************************************************************)
(* binary64 numbers: value = (-1)^neg * man * 2^exp, where man is zero or  *)
(* has exactly 53 bits.  Equal numbers have equal records.                 *)
(***************************************************************************)
NaN == [nan |-> TRUE, neg |-> FALSE, man |-> <<>>, exp |-> 0]

Zero == [nan |-> FALSE, neg |-> FALSE, man |-> <<>>, exp |-> 0]

\* round mag * 2^exp to 53 significant bits, ties to even
RoundToDouble(neg, mag, exp) ==
    LET len == BitLen(mag)
    IN  IF len = 0 THEN Zero
        ELSE IF len <= MantissaBits
        THEN [nan |-> FALSE, neg |-> neg,
              man |-> ShiftLeft(mag, MantissaBits - len),
              exp |-> exp - (MantissaBits - len)]
        ELSE LET cut    == len - MantissaBits
                 half   == ShiftRight(mag, cut - 1)
                 kept   == BDivSmall(half[1], 2)[1]
                 up     == IsOdd(half[1]) /\ (half[2] \/ IsOdd(kept))
                 raised == IF up THEN BAdd(kept, <<1>>) ELSE kept
             IN  IF BitLen(raised) > MantissaBits
                 THEN [nan |-> FALSE, neg |-> neg,
                       man |-> BDivSmall(raised, 2)[1], exp |-> exp + cut + 1]
                 ELSE [nan |-> FALSE, neg |-> neg,
                       man |-> raised, exp |-> exp + cut]

FromInt(n) ==
    IF n < 0 THEN RoundToDouble(TRUE, BFromNat(-n), 0)
    ELSE RoundToDouble(FALSE, BFromNat(n), 0)

Negate(x) == IF x.nan \/ x.man = <<>> THEN x ELSE [x EXCEPT !.neg = ~x.neg]

\* x + y
FAdd(x, y) ==
    IF x.nan \/ y.nan THEN NaN
    ELSE IF x.man = <<>> THEN y
    ELSE IF y.man = <<>> THEN x
    ELSE LET low  == IF x.exp < y.exp THEN x.exp ELSE y.exp
             xm   == ShiftLeft(x.man, x.exp - low)
             ym   == ShiftLeft(y.man, y.exp - low)
             ord  == BCmp(xm, ym)
         IN  IF x.neg = y.neg THEN RoundToDouble(x.neg, BAdd(xm, ym), low)
             ELSE IF ord = 0 THEN Zero
             ELSE IF ord > 0 THEN RoundToDouble(x.neg, BSub(xm, ym), low)
             ELSE RoundToDouble(y.neg, BSub(ym, xm), low)

\* x - y
FSub(x, y) == FAdd(x, Negate(y))

\* x / k for an integer 0 < k < 2^6: the quotient is computed to 55 bits or
\* more, with one more bit that is set when the division left a remainder
FDivInt(x, k) ==
    IF x.nan THEN NaN
    ELSE IF x.man = <<>> THEN Zero
    ELSE LET extra == 8
             qr    == BDivSmall(ShiftLeft(x.man, extra), k)
             tail  == IF qr[2] = 0 THEN <<>> ELSE <<1>>
         IN  RoundToDouble(x.neg, BAdd(BMulSmall(qr[1], 2), tail),
                           x.exp - extra - 1)

\* x * k for an integer 0 < k <= 2^15
FMulInt(x, k) ==
    IF x.nan THEN NaN
    ELSE IF x.man = <<>> THEN Zero
    ELSE RoundToDouble(x.neg, BMulSmall(x.man, k), x.exp)

\* magnitude order of two numbers that are not NaN: mantissas have 53 bits,
\* so the larger exponent is the larger magnitude
MagLess(x, y) ==
    IF y.man = <<>> THEN FALSE
    ELSE IF x.man = <<>> THEN TRUE
    ELSE x.exp < y.exp \/ (x.exp = y.exp /\ BCmp(x.man, y.man) < 0)

\* -1, 0, 1 as x < y, x = y, x > y, for numbers that are not NaN
FCmp(x, y) ==
    IF x = y THEN 0
    ELSE IF x.neg # y.neg THEN (IF x.neg THEN -1 ELSE 1)
    ELSE IF x.neg THEN (IF MagLess(y, x) THEN -1 ELSE 1)
    ELSE IF MagLess(x, y) THEN -1 ELSE 1

\* the comparison operators of the language: a comparison with NaN is false
FGe(x, y) == ~x.nan /\ ~y.nan /\ FCmp(x, y) >= 0

FLt(x, y) == ~x.nan /\ ~y.nan /\ FCmp(x, y) < 0

(***************************************************************************)
(* Strings                                                                 *)
(***************************************************************************)
Digits == {"0", "1", "2", "3", "4", "5", "6", "7", "8", "9"}

UpperCase == {"A", "B", "C", "D", "E", "F", "G", "H", "I", "J", "K", "L", "M",
              "N", "O", "P", "Q", "R", "S", "T", "U", "V", "W", "X", "Y", "Z"}

DigitValue(c) == CHOOSE d \in 0..9 : <<"0", "1", "2", "3", "4", "5", "6", "7", "8", "9">>[d + 1] = c

NewLine == "\n"

\* String.prototype.split(sep) for a one-character separator
RECURSIVE SplitAcc(_, _, _)
SplitAcc(str, sep, piece) ==
    IF str = <<>> THEN <<piece>>
    ELSE IF Head(str) = sep THEN <<piece>> \o SplitAcc(Tail(str), sep, <<>>)
    ELSE SplitAcc(Tail(str), sep, Append(piece, Head(str)))

Split(str, sep) == SplitAcc(str, sep, <<>>)

\* Boolean(string): only the empty string is falsy.  An absent (undefined)
\* string is modelled as the empty one wherever only its truthiness is read.
Truthy(str) == str # <<>>

RECURSIVE DecimalValue(_, _)
DecimalValue(str, acc) ==
    IF str = <<>> THEN acc
    ELSE DecimalValue(Tail(str), 10 * acc + DigitValue(Head(str)))

\* Number(string) on strings of digits, letters and punctuation: the empty
\* string is 0, a string of digits is its decimal value, any other is NaN
Number(str) ==
    IF str = <<>> THEN Zero
    ELSE IF \A i \in 1..Len(str) : str[i] \in Digits
    THEN FromInt(DecimalValue(str, 0))
    ELSE NaN

(***************************************************************************)
(* The layout functions of DayView.tsx                                     *)
(***************************************************************************)
WindowStart == 7

WindowHours == 13

Percent == 100

MinutesPerHour == 60

\* hours + minutes / 60 of "H:MM"; a missing part is undefined, and
\* undefined / 60 is NaN
convertTimeToNumber(timeStr) ==
    LET parts   == Split(timeStr, ":")
        hours   == Number(parts[1])
        minutes == IF Len(parts) >= 2 THEN Number(parts[2]) ELSE NaN
    IN  FAdd(hours, FDivInt(minutes, MinutesPerHour))

\* the split without the filter: empty lines are kept
splitEventValueKeepEmpty(value) == Split(value, NewLine)

\* value.split('\n').filter(Boolean)
splitEventValue(value) == SelectSeq(Split(value, NewLine), Truthy)

\* ((startTime - 7) / 13) * 100
StartPositionOf(startTime) ==
    FMulInt(FDivInt(FSub(startTime, FromInt(WindowStart)), WindowHours), Percent)

\* ((endTime - startTime) / 13) * 100
DurationOf(startTime, endTime) ==
    FMulInt(FDivInt(FSub(endTime, startTime), WindowHours), Percent)

\* value.match(/CE \d[A-Z] \d{3}/) succeeds at position i
KeyMatchesAt(value, i) ==
    /\ i + 8 <= Len(value)
    /\ value[i] = "C" /\ value[i + 1] = "E" /\ value[i + 2] = " "
    /\ value[i + 3] \in Digits /\ value[i + 4] \in UpperCase
    /\ value[i + 5] = " "
    /\ value[i + 6] \in Digits /\ value[i + 7] \in Digits
    /\ value[i + 8] \in Digits

Undefined == <<>>

\* value.match(/CE \d[A-Z] \d{3}/)?.[0]: the leftmost match, or undefined
continuationGroupOf(value) ==
    LET hits == {i \in 1..Len(value) : KeyMatchesAt(value, i)}
    IN  IF hits = {} THEN Undefined
        ELSE LET first == CHOOSE i \in hits : \A j \in hits : i <= j
             IN  SubSeq(value, first, first + 8)

(***************************************************************************)
(* Inputs: the day schedules the component is rendered with                *)
(***************************************************************************)
MaxSlots == 3

T0900 == <<"0", "9", ":", "0", "0">>
T0930 == <<"0", "9", ":", "3", "0">>
T1000 == <<"1", "0", ":", "0", "0">>
T1030 == <<"1", "0", ":", "3", "0">>
T1100 == <<"1", "1", ":", "0", "0">>
T1200 == <<"1", "2", ":", "0", "0">>
T1300 == <<"1", "3", ":", "0", "0">>
T1400 == <<"1", "4", ":", "0", "0">>
TBad  == <<"1", "x", ":", "0", "0">>

\* <<start, end>> of the well-formed slots: adjacent hours twice, a half-hour
\* overlap, a two-hour slot that contains it, and a slot that ends before
\* it starts
Ranges ==
    { <<T0900, T1000>>, <<T1000, T1100>>, <<T0930, T1030>>, <<T0900, T1100>>,
      <<T1200, T1300>>, <<T1300, T1400>>, <<T1100, T1000>> }

TimeStrings == {r[1] : r \in Ranges} \cup {r[2] : r \in Ranges} \cup {TBad}

KeyOne   == <<"C", "E", " ", "1", "A", " ", "1", "0", "1">>
KeyTwo   == <<"C", "E", " ", "2", "B", " ", "2", "0", "2">>

VEmpty   == <<>>
VBlank   == <<NewLine>>
VPlain   == <<"A">>
VCourse  == KeyOne
VSecond  == <<"x">> \o KeyTwo
VTwo     == VCourse \o <<NewLine, NewLine>> \o VSecond

Values == {VEmpty, VBlank, VPlain, VCourse, VTwo}

\* a slot whose start does not parse
MalformedSlot == [start |-> TBad, end |-> T1100, value |-> VCourse]

Slots ==
    {[start |-> r[1], end |-> r[2], value |-> v] : r \in Ranges, v \in Values}
        \cup {MalformedSlot}

RECURSIVE SeqsUpTo(_, _)
SeqsUpTo(S, n) ==
    IF n = 0 THEN {<<>>}
    ELSE LET shorter == SeqsUpTo(S, n - 1)
         IN  shorter \cup {Append(q, x) : q \in {p \in shorter : Len(p) = n - 1}, x \in S}

Schedules ==
    {[present |-> FALSE, data |-> <<>>]}
        \cup {[present |-> TRUE, data |-> d] : d \in SeqsUpTo(Slots, MaxSlots)}

(***************************************************************************)
(* The layout functions tabulated over the time strings of the schedules:  *)
(* every number of a render is convertTimeToNumber, StartPositionOf,       *)
(* DurationOf or a sum of the last two, of these strings.                  *)
(***************************************************************************)
TimeNumber == [ts \in TimeStrings |-> convertTimeToNumber(ts)]

\* convertTimeToNumber(timeStr)
TimeOf(timeStr) == TimeNumber[timeStr]

PositionTable == [ts \in TimeStrings |-> StartPositionOf(TimeNumber[ts])]

DurationTable ==
    [r \in TimeStrings \X TimeStrings |->
        DurationOf(TimeNumber[r[1]], TimeNumber[r[2]])]

\* StartPositionOf(convertTimeToNumber(start))
SlotPosition(start) == PositionTable[start]

\* DurationOf(convertTimeToNumber(start), convertTimeToNumber(end)), of a
\* slot or of a merged span
SpanDuration(start, end) == DurationTable[<<start, end>>]

EndTable ==
    [p \in {<<PositionTable[s], DurationTable[<<t, e>>]>> :
                s \in TimeStrings, t \in TimeStrings, e \in TimeStrings} |->
        FAdd(p[1], p[2])]

\* startPosition + duration
IntervalEnd(event) ==
    EndTable[<<event.startPosition, event.duration>>]

(***************************************************************************)
(* The pipeline of DayView.  Event objects live in a heap (a sequence of   *)
(* records, an address is an index); the arrays processedEvents and        *)
(* mergedEvents and the groups of currentGroup hold addresses, so that two *)
(* arrays can share an object, as they do in the component.                *)
(***************************************************************************)
VARIABLES schedule, pc, heap, processedEvents, currentGroup, mergedEvents,
          blocks, remerged

vars == <<schedule, pc, heap, processedEvents, currentGroup, mergedEvents,
          blocks, remerged>>

\* .filter(slot => Boolean(slot.value))
HasValue(slot) == Truthy(slot.value)

\* the events of one slot with totalSplits counted before the empty lines
\* are dropped
SlotEventsCountAllLines(slot) ==
    LET values == splitEventValue(slot.value)
    IN  [index \in 1..Len(values) |->
            [start             |-> slot.start,
             end               |-> slot.end,
             value             |-> values[index],
             startPosition     |-> SlotPosition(slot.start),
             duration          |-> SpanDuration(slot.start, slot.end),
             splitIndex        |-> index - 1,
             totalSplits       |-> Len(Split(slot.value, NewLine)),
             continuationGroup |-> continuationGroupOf(values[index]),
             isOverlapping     |-> "undefined"]]

\* the events of one slot: values.map((value, index) => ({...}))
SlotEvents(slot) ==
    LET startPosition == SlotPosition(slot.start)
        duration      == SpanDuration(slot.start, slot.end)
        values        == splitEventValue(slot.value)
    IN  [index \in 1..Len(values) |->
            [start             |-> slot.start,
             end               |-> slot.end,
             value             |-> values[index],
             startPosition     |-> startPosition,
             duration          |-> duration,
             splitIndex        |-> index - 1,
             totalSplits       |-> Len(values),
             continuationGroup |-> continuationGroupOf(values[index]),
             isOverlapping     |-> "undefined"]]

\* .flatMap(slot => ...)
RECURSIVE FlatMapSlots(_)
FlatMapSlots(data) ==
    IF data = <<>> THEN <<>>
    ELSE SlotEvents(Head(data)) \o FlatMapSlots(Tail(data))

\* the objects the flatMap creates, in creation order
CreatedEvents(data) == FlatMapSlots(SelectSeq(data, HasValue))

\* the sign of (a, b) => a.startPosition - b.startPosition: the difference
\* of two numbers has the sign of their order, and NaN is taken as 0
CompareFn(a, b) ==
    IF a.startPosition.nan \/ b.startPosition.nan THEN 0
    ELSE FCmp(a.startPosition, b.startPosition)

\* insert addr behind every address whose object does not sort after it
RECURSIVE InsertStable(_, _, _)
InsertStable(hp, sorted, addr) ==
    IF sorted = <<>> THEN <<addr>>
    ELSE IF CompareFn(hp[Head(sorted)], hp[addr]) > 0 THEN <<addr>> \o sorted
    ELSE <<Head(sorted)>> \o InsertStable(hp, Tail(sorted), addr)

RECURSIVE StableSort(_, _)
StableSort(hp, addrs) ==
    IF addrs = <<>> THEN <<>>
    ELSE InsertStable(hp, StableSort(hp, SubSeq(addrs, 1, Len(addrs) - 1)),
                      addrs[Len(addrs)])

\* the comparator orders the objects consistently: NaN compares as equal to
\* everything, so it does only when all other positions are equal
ConsistentCompare(hp) ==
    \/ \A a \in DOMAIN hp : ~hp[a].startPosition.nan
    \/ \A a, b \in DOMAIN hp : CompareFn(hp[a], hp[b]) = 0

RECURSIVE Arrangements(_)
Arrangements(S) ==
    IF S = {} THEN {<<>>}
    ELSE UNION {{<<x>> \o p : p \in Arrangements(S \ {x})} : x \in S}

\* Array.prototype.sort: stable; with an inconsistent comparator the order
\* is implementation-defined, any arrangement of the elements
SortOutcomes(hp) ==
    IF ConsistentCompare(hp) THEN {StableSort(hp, [a \in DOMAIN hp |-> a])}
    ELSE Arrangements(DOMAIN hp)

\* the keys of currentGroup after the forEach
GroupKeys(hp, list) ==
    {hp[list[i]].continuationGroup : i \in DOMAIN list} \ {Undefined}

\* currentGroup[key]: the events with that key, in list order
GroupOf(hp, list, key) ==
    LET HasKey(addr) == hp[addr].continuationGroup = key
    IN  SelectSeq(list, HasKey)

BuildGroups(hp, list) == [key \in GroupKeys(hp, list) |-> GroupOf(hp, list, key)]

\* the merged event without the new end
MergedEventKeepEnd(event, lastEvent) ==
    [event EXCEPT !.duration = SpanDuration(event.start, lastEvent.end)]

\* the merged event starting where the last event starts
MergedEventMoveStart(event, lastEvent) ==
    [event EXCEPT !.end = lastEvent.end,
                  !.startPosition = lastEvent.startPosition,
                  !.duration = SpanDuration(event.start, lastEvent.end)]

\* {...event, end: lastEvent.end, duration: ...}
MergedEvent(event, lastEvent) ==
    [event EXCEPT !.end = lastEvent.end,
                  !.duration = SpanDuration(event.start, lastEvent.end)]

\* event !== group[0]
IsNotGroupHead(addr, group) == addr # group[1]

\* event === group[0]
IsGroupHead(addr, group) == addr = group[1]

\* the reduce over the list: [heap, list] once the rest has been visited
RECURSIVE ReduceMerge(_, _, _, _)
ReduceMerge(rest, groups, hp, acc) ==
    IF rest = <<>> THEN [heap |-> hp, list |-> acc]
    ELSE LET addr == Head(rest)
             key  == hp[addr].continuationGroup
         IN  IF ~Truthy(key) \/ key \notin DOMAIN groups
             THEN ReduceMerge(Tail(rest), groups, hp, Append(acc, addr))
             ELSE IF Len(groups[key]) <= 1
             THEN ReduceMerge(Tail(rest), groups, hp, Append(acc, addr))
             ELSE IF IsGroupHead(addr, groups[key])
             THEN ReduceMerge(Tail(rest), groups,
                      Append(hp, MergedEvent(hp[addr],
                                             hp[groups[key][Len(groups[key])]])),
                      Append(acc, Len(hp) + 1))
             ELSE ReduceMerge(Tail(rest), groups, hp, acc)

\* grouping and merge of a list
MergeList(hp, list) == ReduceMerge(list, BuildGroups(hp, list), hp, <<>>)

\* the interval test of the overlap scan
Overlaps(event, otherEvent) ==
    ~(\/ FGe(otherEvent.startPosition, IntervalEnd(event))
      \/ FGe(event.startPosition, IntervalEnd(otherEvent)))

\* overlappingEvents.length > 0 for the event at index of the list
HasOverlap(hp, list, index) ==
    \E otherIndex \in DOMAIN list :
        /\ otherIndex # index
        /\ Overlaps(hp[list[index]], hp[list[otherIndex]])

BoolString(b) == IF b THEN "true" ELSE "false"

\* the heap after processedEvents.forEach(event => event.isOverlapping = ...)
AnnotatedHeap(hp, list) ==
    [addr \in DOMAIN hp |->
        IF \E index \in DOMAIN list : list[index] = addr
        THEN [hp[addr] EXCEPT !.isOverlapping =
                 BoolString(\E index \in DOMAIN list :
                                list[index] = addr /\ HasOverlap(hp, list, index))]
        ELSE hp[addr]]

\* left and width of a block: split columns, the right half, or full width
LayoutOf(event) ==
    IF event.totalSplits > 1 THEN "split"
    ELSE IF event.isOverlapping = "true" THEN "half" ELSE "full"

BlockOf(event) ==
    [value  |-> event.value,
     top    |-> event.startPosition,
     height |-> event.duration,
     layout |-> LayoutOf(event)]

(***************************************************************************)
(* The state machine: one render of the component, statement by statement  *)
(***************************************************************************)
Init ==
    /\ schedule \in Schedules
    /\ pc = "start"
    /\ heap = <<>>
    /\ processedEvents = <<>>
    /\ currentGroup = <<>>
    /\ mergedEvents = <<>>
    /\ blocks = <<>>
    /\ remerged = [heap |-> <<>>, list |-> <<>>]

\* if (!schedule) return <div>No schedule available for this day</div>
RenderPlaceholder ==
    /\ pc = "start"
    /\ ~schedule.present
    /\ pc' = "placeholder"
    /\ UNCHANGED <<schedule, heap, processedEvents, currentGroup, mergedEvents,
                   blocks, remerged>>

\* const processedEvents = schedule.data.filter(...).flatMap(...).sort(...)
ProcessEvents ==
    /\ pc = "start"
    /\ schedule.present
    /\ heap' = CreatedEvents(schedule.data)
    /\ processedEvents' \in SortOutcomes(heap')
    /\ pc' = "processed"
    /\ UNCHANGED <<schedule, currentGroup, mergedEvents, blocks, remerged>>

\* processedEvents.forEach(event => currentGroup[key].push(event))
GroupEvents ==
    /\ pc = "processed"
    /\ currentGroup' = BuildGroups(heap, processedEvents)
    /\ pc' = "grouped"
    /\ UNCHANGED <<schedule, heap, processedEvents, mergedEvents, blocks, remerged>>

\* const mergedEvents = processedEvents.reduce(...)
MergeEvents ==
    /\ pc = "grouped"
    /\ LET result == ReduceMerge(processedEvents, currentGroup, heap, <<>>)
       IN  /\ heap' = result.heap
           /\ mergedEvents' = result.list
    /\ pc' = "merged"
    /\ UNCHANGED <<schedule, processedEvents, currentGroup, blocks, remerged>>

\* processedEvents.forEach((event, index) => event.isOverlapping = ...)
AnnotateOverlaps ==
    /\ pc = "merged"
    /\ heap' = AnnotatedHeap(heap, processedEvents)
    /\ pc' = "annotated"
    /\ UNCHANGED <<schedule, processedEvents, currentGroup, mergedEvents,
                   blocks, remerged>>

\* mergedEvents.map((event, index) => <div ... />)
RenderBlocks ==
    /\ pc = "annotated"
    /\ blocks' = [i \in DOMAIN mergedEvents |-> BlockOf(heap[mergedEvents[i]])]
    /\ pc' = "rendered"
    /\ UNCHANGED <<schedule, heap, processedEvents, currentGroup, mergedEvents,
                   remerged>>

Next ==
    \/ RenderPlaceholder
    \/ ProcessEvents
    \/ GroupEvents
    \/ MergeEvents
    \/ AnnotateOverlaps
    \/ RenderBlocks

Spec == Init /\ [][Next]_vars

\* grouping and merge applied once more, to the merged list
Remerge ==
    /\ pc = "merged"
    /\ remerged' = MergeList(heap, mergedEvents)
    /\ pc' = "remerged"
    /\ UNCHANGED <<schedule, heap, processedEvents, currentGroup, mergedEvents,
                   blocks>>

NextRemerge ==
    \/ RenderPlaceholder
    \/ ProcessEvents
    \/ GroupEvents
    \/ MergeEvents
    \/ AnnotateOverlaps
    \/ RenderBlocks
    \/ Remerge

SpecRemerge == Init /\ [][NextRemerge]_vars

\* the list handed to the renderer: the objects of mergedEvents
RenderedEvents == [i \in DOMAIN mergedEvents |-> heap[mergedEvents[i]]]

(***************************************************************************)
(* Split and normalize                                                     *)
(***************************************************************************)
\* the number of non-empty lines of a string: the places where a line starts
LineCount(value) ==
    Cardinality({i \in 1..Len(value) :
                    value[i] # NewLine /\ (i = 1 \/ value[i - 1] = NewLine)})

RECURSIVE TotalLines(_)
TotalLines(data) ==
    IF data = <<>> THEN 0
    ELSE (IF Head(data).value = <<>> THEN 0 ELSE LineCount(Head(data).value))
             + TotalLines(Tail(data))

Processed == pc \in {"processed", "grouped", "merged", "annotated", "rendered", "remerged"}

\* C1: the split-and-normalize stage emits exactly one event per non-empty
\* line of every slot with a non-empty value: the pre-merge list has as many
\* events as those slots have non-empty lines, each event holding one line
C1_OneEventPerLine ==
    Processed =>
        /\ Len(processedEvents) = TotalLines(schedule.data)
        /\ \A i \in DOMAIN processedEvents :
              LET line == heap[processedEvents[i]].value
              IN  line # <<>> /\ \A j \in DOMAIN line : line[j] # NewLine
        /\ \A i, j \in DOMAIN processedEvents :
              processedEvents[i] = processedEvents[j] => i = j

\* a day with an empty slot, a slot of line breaks only and a two-line slot
\* with a blank line between the lines has been split into two events
C1_Witness ==
    /\ pc = "processed"
    /\ Len(schedule.data) = 3
    /\ schedule.data[1].value = VEmpty
    /\ schedule.data[2].value = VBlank
    /\ schedule.data[3].value = VTwo
    /\ Len(processedEvents) = 2

\* the places where the non-empty lines of a string start, and the line
\* that starts at a place
LineStarts(value) ==
    {i \in 1..Len(value) : value[i] # NewLine /\ (i = 1 \/ value[i - 1] = NewLine)}

LineFrom(value, i) ==
    LET stop == CHOOSE e \in i..Len(value) :
                    /\ \A k \in i..e : value[k] # NewLine
                    /\ e = Len(value) \/ value[e + 1] = NewLine
    IN  SubSeq(value, i, stop)

NthLine(value, n) ==
    LineFrom(value, CHOOSE i \in LineStarts(value) :
                        Cardinality({k \in LineStarts(value) : k <= i}) = n)

\* C7: the pre-merge events of a slot with n >= 1 non-empty lines are n
\* events with totalSplits = n and splitIndex 0..n-1 in line order, all with
\* the slot's startPosition = (hour(start) - 7) / 13 * 100 and
\* duration = (hour(end) - hour(start)) / 13 * 100
C7_SplitsOfASlot ==
    pc = "processed" =>
        \A k \in DOMAIN schedule.data :
            LET slot   == schedule.data[k]
                n      == LineCount(slot.value)
                offset == TotalLines(SubSeq(schedule.data, 1, k - 1))
            IN  \A j \in 1..n :
                    LET event == heap[offset + j]
                    IN  /\ event.totalSplits = n
                        /\ event.splitIndex = j - 1
                        /\ 0 <= event.splitIndex
                        /\ event.splitIndex < event.totalSplits
                        /\ event.value = NthLine(slot.value, j)
                        /\ event.start = slot.start
                        /\ event.end = slot.end
                        /\ event.startPosition = SlotPosition(slot.start)
                        /\ event.duration = SpanDuration(slot.start, slot.end)

\* the slot 09:00-10:00 "CE 1A 101", blank line, "xCE 2B 202" has given two events,
\* splitIndex 0 and 1 of 2, at 2/13 of the window and 1/13 of it long
C7_Witness ==
    /\ pc = "processed"
    /\ Len(schedule.data) = 1
    /\ schedule.data[1] = [start |-> T0900, end |-> T1000, value |-> VTwo]
    /\ Len(heap) = 2
    /\ heap[1].splitIndex = 0 /\ heap[2].splitIndex = 1
    /\ heap[1].totalSplits = 2 /\ heap[2].totalSplits = 2
    /\ heap[1].value = VCourse /\ heap[2].value = VSecond
    /\ heap[1].continuationGroup = KeyOne /\ heap[2].continuationGroup = KeyTwo
    /\ heap[1].startPosition = heap[2].startPosition
    /\ heap[1].startPosition = FMulInt(FDivInt(FromInt(2), 13), 100)
    /\ heap[1].duration = FMulInt(FDivInt(FromInt(1), 13), 100)

(***************************************************************************)
(* Continuation merge                                                      *)
(***************************************************************************)
Merged == pc \in {"merged", "annotated", "rendered", "remerged"}

\* the places of processedEvents and of mergedEvents whose event has a key
PlacesWithKey(key) ==
    {i \in DOMAIN processedEvents : heap[processedEvents[i]].continuationGroup = key}

OutputsWithKey(key) ==
    {i \in DOMAIN mergedEvents : heap[mergedEvents[i]].continuationGroup = key}

SharedKeys ==
    {key \in {heap[processedEvents[i]].continuationGroup : i \in DOMAIN processedEvents} :
        key # Undefined /\ Cardinality(PlacesWithKey(key)) >= 2}

MinOf(S) == CHOOSE i \in S : \A j \in S : i <= j

MaxIn(S) == CHOOSE i \in S : \A j \in S : i >= j

\* C3: for every continuation key that two or more pre-merge events share,
\* the merged list holds exactly one event with that key: the group's first
\* event of the sorted list with start, value, startPosition, splitIndex and
\* totalSplits unchanged, end that of the group's last event and duration
\* (hour(last.end) - hour(first.start)) / 13 * 100; no other event of the
\* group is in the merged list
C3_GroupBecomesOneEvent ==
    Merged =>
        \A key \in SharedKeys :
            LET places == PlacesWithKey(key)
                first  == heap[processedEvents[MinOf(places)]]
                last   == heap[processedEvents[MaxIn(places)]]
                outs   == OutputsWithKey(key)
            IN  /\ Cardinality(outs) = 1
                /\ \A i \in outs :
                      LET merged == heap[mergedEvents[i]]
                      IN  /\ merged.start = first.start
                          /\ merged.value = first.value
                          /\ merged.startPosition = first.startPosition
                          /\ merged.splitIndex = first.splitIndex
                          /\ merged.totalSplits = first.totalSplits
                          /\ merged.end = last.end
                          /\ merged.duration = SpanDuration(first.start, last.end)
                /\ \A p \in places : \A i \in DOMAIN mergedEvents :
                      mergedEvents[i] # processedEvents[p]

\* 09:00-10:00 and 10:00-11:00, both "CE 1A 101", have become one event
\* 09:00-11:00 as long as two hours of the window
C3_Witness ==
    /\ pc = "merged"
    /\ schedule.data = << [start |-> T0900, end |-> T1000, value |-> VCourse],
                          [start |-> T1000, end |-> T1100, value |-> VCourse] >>
    /\ Len(mergedEvents) = 1
    /\ heap[mergedEvents[1]].start = T0900
    /\ heap[mergedEvents[1]].end = T1100
    /\ heap[mergedEvents[1]].continuationGroup = VCourse
    /\ heap[mergedEvents[1]].duration = FMulInt(FDivInt(FromInt(2), 13), 100)

\* an event of the sorted list that merge has to pass through: no key, or a
\* key no other event has
PassesThrough(i) ==
    LET key == heap[processedEvents[i]].continuationGroup
    IN  key = Undefined \/ Cardinality(PlacesWithKey(key)) = 1

\* C5: merge leaves every event without a key, or with a key of its own, in
\* the output exactly once and unchanged; every event of the output is
\* either such an unchanged event or a group's first event with only end
\* and duration replaced, so value is never changed
C5_MergeFrame ==
    [][(pc = "grouped" /\ pc' = "merged") =>
        /\ \A i \in DOMAIN processedEvents :
              PassesThrough(i) =>
                  /\ Cardinality({j \in DOMAIN mergedEvents' :
                                     mergedEvents'[j] = processedEvents[i]}) = 1
                  /\ heap'[processedEvents[i]] = heap[processedEvents[i]]
        /\ \A j \in DOMAIN mergedEvents' :
              \/ \E i \in DOMAIN processedEvents :
                    /\ PassesThrough(i)
                    /\ mergedEvents'[j] = processedEvents[i]
              \/ \E key \in SharedKeys :
                    LET first == heap[processedEvents[MinOf(PlacesWithKey(key))]]
                        kept  == heap'[mergedEvents'[j]]
                    IN  /\ mergedEvents'[j] \notin DOMAIN heap
                        /\ kept = [first EXCEPT !.end = kept.end,
                                                !.duration = kept.duration]
       ]_vars

\* a merged list with an event without key, an event with a key of its own
\* and a merged event
C5_Witness ==
    /\ pc = "merged"
    /\ Len(processedEvents) = 4
    /\ Len(mergedEvents) = 3
    /\ \E i \in DOMAIN mergedEvents : mergedEvents[i] > Len(processedEvents)
    /\ \E i \in DOMAIN mergedEvents :
          /\ mergedEvents[i] <= Len(processedEvents)
          /\ heap[mergedEvents[i]].continuationGroup = Undefined
    /\ \E i \in DOMAIN mergedEvents :
          /\ mergedEvents[i] <= Len(processedEvents)
          /\ heap[mergedEvents[i]].continuationGroup # Undefined

\* C9: merge is idempotent: in the merged list every key is held by at most
\* one event, and grouping and merging that list again gives the same events
\* in the same order with every field equal
C9_MergeIdempotent ==
    pc = "remerged" =>
        /\ \A i, j \in DOMAIN mergedEvents :
              (/\ heap[mergedEvents[i]].continuationGroup # Undefined
               /\ heap[mergedEvents[i]].continuationGroup =
                      heap[mergedEvents[j]].continuationGroup) => i = j
        /\ Len(remerged.list) = Len(mergedEvents)
        /\ \A i \in DOMAIN mergedEvents :
              remerged.heap[remerged.list[i]] = heap[mergedEvents[i]]

\* a list in which the first merge has collapsed a group and kept another
\* event has been merged again
C9_Witness ==
    /\ pc = "remerged"
    /\ Len(mergedEvents) < Len(processedEvents)
    /\ Len(mergedEvents) >= 2
    /\ \E i \in DOMAIN mergedEvents : mergedEvents[i] > Len(processedEvents)

\* C10 as stated: when every slot has start <= end, the merged event of a
\* group of two or more starts no later than any member, ends no earlier
\* than any member, and is no shorter than the group's first event was
C10_MergedCoversMembers ==
    (/\ Merged
     /\ \A k \in DOMAIN schedule.data :
           FGe(TimeOf(schedule.data[k].end), TimeOf(schedule.data[k].start)))
    => \A key \in SharedKeys :
          LET places == PlacesWithKey(key)
              first  == heap[processedEvents[MinOf(places)]]
          IN  \A i \in OutputsWithKey(key) : \A p \in places :
                  LET merged == heap[mergedEvents[i]]
                      member == heap[processedEvents[p]]
                  IN  /\ FGe(member.startPosition, merged.startPosition)
                      /\ FGe(IntervalEnd(merged), IntervalEnd(member))
                      /\ FGe(merged.duration, first.duration)

(***************************************************************************)
(* Order of the merged list                                                *)
(***************************************************************************)
\* the created event an event of the merged list stands for: itself, or
\* the first event of its group
OriginOf(addr) ==
    IF addr <= Len(processedEvents) THEN addr
    ELSE processedEvents[MinOf(PlacesWithKey(heap[addr].continuationGroup))]

\* C4 as stated: the merged list is in ascending startPosition order, and
\* events with equal startPosition are in the order of their slots and lines
C4_AscendingStable ==
    Merged =>
        \A i, j \in DOMAIN mergedEvents :
            i < j =>
                /\ FGe(heap[mergedEvents[j]].startPosition,
                       heap[mergedEvents[i]].startPosition)
                /\ heap[mergedEvents[j]].startPosition =
                       heap[mergedEvents[i]].startPosition
                   => OriginOf(mergedEvents[i]) < OriginOf(mergedEvents[j])

(***************************************************************************)
(* Malformed times                                                         *)
(***************************************************************************)
WellFormedSlot(slot) == ~TimeOf(slot.start).nan /\ ~TimeOf(slot.end).nan

\* the list one render hands over for a day without malformed slots
OutputFor(data) ==
    LET created == CreatedEvents(data)
        sorted  == StableSort(created, [a \in DOMAIN created |-> a])
        merge   == MergeList(created, sorted)
        final   == AnnotatedHeap(merge.heap, sorted)
    IN  [i \in DOMAIN merge.list |-> final[merge.list[i]]]

\* C6 as stated: a slot with a malformed time gives no event, and the other
\* slots give the events they would give without it
C6_MalformedSlotSkipped ==
    pc = "rendered" =>
        RenderedEvents = OutputFor(SelectSeq(schedule.data, WellFormedSlot))

(***************************************************************************)
(* Overlap annotation                                                      *)
(***************************************************************************)
Annotated == pc \in {"annotated", "rendered"}

\* C2 as stated: an event of the list handed to the renderer has
\* isOverlapping true exactly if another event of that list intersects it
\* (a flag that was never set counts as false, as it does for the renderer)
C2_FlagMatchesMergedList ==
    pc = "rendered" =>
        \A i \in DOMAIN mergedEvents :
            (heap[mergedEvents[i]].isOverlapping = "true") =
                (\E j \in DOMAIN mergedEvents :
                    /\ j # i
                    /\ Overlaps(heap[mergedEvents[i]], heap[mergedEvents[j]]))

\* one slot ends at the time the other starts, both of positive length
EndsWhenStarts(event, otherEvent) ==
    /\ FLt(TimeOf(event.start), TimeOf(event.end))
    /\ FLt(TimeOf(otherEvent.start), TimeOf(otherEvent.end))
    /\ TimeOf(event.end) = TimeOf(otherEvent.start)

\* C8 as stated: the interval test is symmetric, an event flagged because
\* of another has that other flagged too, and two events of which one ends
\* exactly when the other starts do not flag each other
C8_OverlapSymmetric ==
    Annotated =>
        \A i, j \in DOMAIN processedEvents :
            i # j =>
                LET event == heap[processedEvents[i]]
                    other == heap[processedEvents[j]]
                IN  /\ Overlaps(event, other) = Overlaps(other, event)
                    /\ Overlaps(event, other) =>
                          event.isOverlapping = "true" /\ other.isOverlapping = "true"
                    /\ EndsWhenStarts(event, other) => ~Overlaps(event, other)

====
